---- MODULE Spec2Model ----
(***************************************************************************)
(* PoloSeek: arbitration of one parking pass among users, by a reservation *)
(* queue with an approval gate (src/database.py, src/poloseek.py,          *)
(* src/commands.py).                                                       *)
(*                                                                         *)
(* Time is counted in whole seconds.  Stored timestamps are ISO strings of *)
(* one timezone, so their order is the order of the instants; they are     *)
(* modelled by the instant.  The bot is one asyncio process: a handler     *)
(* runs without interruption from one `await` of real I/O to the next, so  *)
(* each action below is one such segment.  The store's queries without an  *)
(* ORDER BY return rows in rowid order, and ties of an ORDER BY ... LIMIT 1*)
(* go to the lowest rowid (SQLite's table scan).                           *)
(***************************************************************************)
EXTENDS Integers, Sequences, FiniteSets, TLC

\* ------------------------------------------------------------------ bounds
NumUsers == 2
MaxTime == 3
MaxRes == 2
MaxCalls == 3
\* The last second of the clock of the guard's own specification: two minutes
\* and one second.
MaxClock == 121

\* ------------------------------------------------------- program constants
DEFAULT_OWNER_ID == 1
OWNER_ID == 1
BufferSeconds == 1
SecondsPerMinute == 60
NoTime == -1
\* timedelta(days=7), in seconds.
RetentionSeconds == 604800

Users == 1..NumUsers
Times == 0..MaxTime

VARIABLES
    now,              \* the wall clock, datetime.now(CDT)
    pass,             \* the parking_pass row: [owner, last_updated]
    reservations,     \* the reservations table, in rowid order
    memos,            \* the users that have a parking_memo in the users table
    last_check_time,  \* PoloSeek.last_check_time (NoTime for None)
    lastApply,        \* the most recent completed Scraper.update_parking_pass
    tick,             \* the check_expired_reservations task
    give,             \* a /give handler
    approve,          \* an /approve handler
    revoke,           \* a /revoke handler
    calls,            \* the transfers completed by the last step, in order
    done,             \* the snapshot of the tick pass the last step finished
    quiet             \* TRUE once the operators issue no further commands

vars == <<now, pass, reservations, memos, last_check_time, lastApply,
          tick, give, approve, revoke, calls, done, quiet>>

\* ------------------------------------------------------------- the store

\* An init_database that writes the default owner whether or not the
\* parking_pass table has a row.
init_database_reset(rows, t) ==
    <<[owner |-> DEFAULT_OWNER_ID, last_updated |-> t]>>

\* database.py: init_database, on the rows of the parking_pass table, at
\* clock value t (last_updated takes its default, the time of the INSERT).
init_database(rows, t) ==
    IF Len(rows) = 0
    THEN Append(rows, [owner |-> DEFAULT_OWNER_ID, last_updated |-> t])
    ELSE rows

\* A transfer that writes the owner without comparing (the UPDATE of
\* update_parking_pass_owner in the place of the guarded one).
transfer_pass_unconditional(p, from_user_id, to_user_id, t) ==
    [pass |-> [owner |-> to_user_id, last_updated |-> t], ret |-> TRUE]

\* database.py: transfer_pass_with_lock.  The compare-and-set of the owner,
\* at clock value t.
transfer_pass_with_lock(p, from_user_id, to_user_id, t) ==
    IF p.owner = from_user_id
    THEN [pass |-> [owner |-> to_user_id, last_updated |-> t], ret |-> TRUE]
    ELSE [pass |-> p, ret |-> FALSE]

\* k successive calls of transfer_pass_with_lock with the same arguments (the
\* exclusive transaction serialises concurrent callers): the values returned.
RECURSIVE RepeatedTransfer(_, _, _, _, _)
RepeatedTransfer(p, from_user_id, to_user_id, t, k) ==
    IF k = 0 THEN <<>>
    ELSE LET r == transfer_pass_with_lock(p, from_user_id, to_user_id, t)
         IN  <<r.ret>> \o RepeatedTransfer(r.pass, from_user_id, to_user_id, t, k - 1)

\* The first row of rs with the least start_time (ORDER BY start_time LIMIT 1),
\* as a sequence of length 0 or 1.
EarliestStart(rs) ==
    IF rs = <<>> THEN <<>>
    ELSE LET i == CHOOSE i \in DOMAIN rs :
                     /\ \A j \in DOMAIN rs : rs[i].start <= rs[j].start
                     /\ \A j \in 1..(i - 1) : rs[j].start > rs[i].start
         IN  <<rs[i]>>

\* The first row of rs with the greatest start_time (ORDER BY start_time DESC
\* LIMIT 1).
LatestStart(rs) ==
    IF rs = <<>> THEN <<>>
    ELSE LET i == CHOOSE i \in DOMAIN rs :
                     /\ \A j \in DOMAIN rs : rs[i].start >= rs[j].start
                     /\ \A j \in 1..(i - 1) : rs[j].start < rs[i].start
         IN  <<rs[i]>>

\* An expired query that leaves out the reservations that end at the clock.
expired_reservations_strict(rs, current_time) ==
    LET Keep(r) == r.active /\ r.end < current_time
    IN  SelectSeq(rs, Keep)

\* database.py: get_reservation_status, the expired rows.
expired_reservations(rs, current_time) ==
    LET Keep(r) == r.active /\ r.end <= current_time
    IN  SelectSeq(rs, Keep)

\* database.py: get_reservation_status, the next approved row.
next_approved(rs, current_time) ==
    LET Keep(r) == r.active /\ r.approved /\ r.end > current_time
    IN  EarliestStart(SelectSeq(rs, Keep))

\* database.py: get_next_approved_reservation (no caller in the program): the
\* row must have started a BufferSeconds before current_time.
get_next_approved_reservation(rs, current_time) ==
    LET Keep(r) ==
            /\ r.active /\ r.approved
            /\ r.start <= current_time - BufferSeconds
            /\ r.end > current_time
    IN  EarliestStart(SelectSeq(rs, Keep))

\* The columns the status queries select: user_id, start_time, end_time.
Columns(rs) ==
    [i \in DOMAIN rs |->
        [user |-> rs[i].user, start |-> rs[i].start, end |-> rs[i].end]]

\* database.py: get_reservation_status (with the clock value the tick keeps
\* beside it).
get_reservation_status(p, rs, current_time) ==
    [now     |-> current_time,
     owner   |-> p.owner,
     expired |-> Columns(expired_reservations(rs, current_time)),
     next    |-> Columns(next_approved(rs, current_time))]

\* A conflict query that counts intervals that only touch.
check_reservation_conflicts_touching(rs, start_time, end_time) ==
    LET Keep(r) ==
            /\ r.active
            /\ r.approved
            /\ r.start <= end_time /\ r.end >= start_time
    IN  SelectSeq(rs, Keep)

\* database.py: check_reservation_conflicts, called without exclude_user_id.
check_reservation_conflicts(rs, start_time, end_time) ==
    LET Keep(r) ==
            /\ r.active
            /\ r.approved
            /\ \/ (r.start < end_time /\ r.end > start_time)
               \/ (r.start < end_time /\ r.end > start_time)
               \/ (r.start >= start_time /\ r.end <= end_time)
    IN  SelectSeq(rs, Keep)

\* A create_reservation that inserts the row as approved.
create_reservation_approved(rs, user_id, start_time, end_time) ==
    Append(rs, [user |-> user_id, start |-> start_time, end |-> end_time,
                active |-> TRUE, approved |-> TRUE])

\* The value of exclude_user_id when none is given (None).
NoUser == 0

\* database.py: check_reservation_conflicts with its exclude_user_id
\* parameter (the clause of lines 186-188 is added when it is given).
check_reservation_conflicts_excluding(rs, start_time, end_time, exclude_user_id) ==
    LET Keep(r) ==
            /\ r.active
            /\ r.approved
            /\ \/ (r.start < end_time /\ r.end > start_time)
               \/ (r.start < end_time /\ r.end > start_time)
               \/ (r.start >= start_time /\ r.end <= end_time)
            /\ exclude_user_id # NoUser => r.user # exclude_user_id
    IN  SelectSeq(rs, Keep)

\* database.py: create_reservation (active_status and approved take the
\* column defaults).
create_reservation(rs, user_id, start_time, end_time) ==
    Append(rs, [user |-> user_id, start |-> start_time, end |-> end_time,
                active |-> TRUE, approved |-> FALSE])

\* rs in the order of ORDER BY start_time: by start, rows of equal start in
\* rowid order.
RECURSIVE OrderByStart(_)
OrderByStart(rs) ==
    IF rs = <<>> THEN <<>>
    ELSE LET first == EarliestStart(rs)[1]
             i == CHOOSE i \in DOMAIN rs :
                      rs[i] = first /\ \A j \in 1..(i - 1) : rs[j] # first
         IN  <<first>> \o OrderByStart(SubSeq(rs, 1, i - 1) \o SubSeq(rs, i + 1, Len(rs)))

\* database.py: get_reservations, the list of the active reservations.
get_reservations(rs) ==
    LET Keep(r) == r.active
        rows == OrderByStart(SelectSeq(rs, Keep))
    IN  [i \in DOMAIN rows |->
            [user |-> rows[i].user, start |-> rows[i].start,
             end |-> rows[i].end, approved |-> rows[i].approved]]

\* database.py: get_user_active_reservations.
get_user_active_reservations(rs, user_id, current_time) ==
    LET Keep(r) ==
            /\ r.user = user_id
            /\ r.active
            /\ r.start <= current_time
            /\ r.end > current_time
    IN  SelectSeq(rs, Keep)

\* A pending query that also returns reservations that have started.
get_user_next_unapproved_any_start(rs, user_id, t) ==
    LET Keep(r) == r.user = user_id /\ r.active /\ ~r.approved
    IN  EarliestStart(SelectSeq(rs, Keep))

\* database.py: get_user_next_unapproved_reservation.
get_user_next_unapproved_reservation(rs, user_id, t) ==
    LET Keep(r) ==
            r.user = user_id /\ r.active /\ ~r.approved /\ r.start > t
    IN  EarliestStart(SelectSeq(rs, Keep))

\* database.py: get_user_most_recent_approved_reservation.
get_user_most_recent_approved_reservation(rs, user_id) ==
    LET Keep(r) == r.user = user_id /\ r.active /\ r.approved
    IN  LatestStart(SelectSeq(rs, Keep))

\* An approve_reservation_by_details that does not test active_status.
approve_reservation_any_status(rs, user_id, start_time) ==
    [i \in DOMAIN rs |->
        IF rs[i].user = user_id /\ rs[i].start = start_time
        THEN [rs[i] EXCEPT !.approved = TRUE]
        ELSE rs[i]]

\* database.py: approve_reservation_by_details.
approve_reservation_by_details(rs, user_id, start_time) ==
    [i \in DOMAIN rs |->
        IF rs[i].user = user_id /\ rs[i].start = start_time /\ rs[i].active
        THEN [rs[i] EXCEPT !.approved = TRUE]
        ELSE rs[i]]

\* A mark_reservation_inactive that flips active_status.
mark_reservation_inactive_toggle(rs, user_id, start_time) ==
    [i \in DOMAIN rs |->
        IF rs[i].user = user_id /\ rs[i].start = start_time
        THEN [rs[i] EXCEPT !.active = ~rs[i].active]
        ELSE rs[i]]

\* A mark_reservation_inactive whose UPDATE matches on the user alone.
mark_reservation_inactive_by_user(rs, user_id, start_time) ==
    [i \in DOMAIN rs |->
        IF rs[i].user = user_id
        THEN [rs[i] EXCEPT !.active = FALSE]
        ELSE rs[i]]

\* A mark_reservation_inactive that clears the approval with the activity.
mark_reservation_inactive_unapprove(rs, user_id, start_time) ==
    [i \in DOMAIN rs |->
        IF rs[i].user = user_id /\ rs[i].start = start_time
        THEN [rs[i] EXCEPT !.active = FALSE, !.approved = FALSE]
        ELSE rs[i]]

\* A mark_reservation_inactive whose UPDATE matches no row.
mark_reservation_inactive_lost(rs, user_id, start_time) == rs

\* database.py: mark_reservation_inactive.
mark_reservation_inactive(rs, user_id, start_time) ==
    [i \in DOMAIN rs |->
        IF rs[i].user = user_id /\ rs[i].start = start_time
        THEN [rs[i] EXCEPT !.active = FALSE]
        ELSE rs[i]]

\* A cleanup that deletes the old rows whatever their active_status.
cleanup_old_reservations_any_status(rs, cutoff_date) ==
    LET Keep(r) == ~(r.end < cutoff_date)
    IN  [rs |-> SelectSeq(rs, Keep),
         deleted_count |-> Cardinality({i \in DOMAIN rs : ~Keep(rs[i])})]

\* database.py: cleanup_old_reservations: the table it leaves and the
\* rowcount of the DELETE, which it returns.
cleanup_old_reservations(rs, cutoff_date) ==
    LET Keep(r) == ~(~r.active /\ r.end < cutoff_date)
    IN  [rs |-> SelectSeq(rs, Keep),
         deleted_count |-> Cardinality({i \in DOMAIN rs : ~Keep(rs[i])})]

\* A readiness test with a strict comparison.
is_reservation_ready_strict(reservation, current_time) ==
    reservation.start < current_time - BufferSeconds

\* A readiness test that lets a reservation start a BufferSeconds early.
is_reservation_ready_early(reservation, current_time) ==
    reservation.start <= current_time + BufferSeconds

\* database.py: is_reservation_ready_to_start.
is_reservation_ready_to_start(reservation, current_time) ==
    reservation.start <= current_time - BufferSeconds

\* database.py: get_user_memo, as the truth value the callers test.
get_user_memo(user_id) == user_id \in memos

\* ------------------------------------------------- the transfer protocol

\* One completed transfer: who ran it, its arguments, what the external
\* apply did ("none", "ok", "fail"), what the compare-and-set did ("none",
\* "true", "false"), the value reported, and the pass row before and after.
Call(op, from_user_id, to_user_id, ext, r, before) ==
    [op |-> op, from |-> from_user_id, to |-> to_user_id, ext |-> ext,
     cas |-> IF r.ret THEN "true" ELSE "false", ret |-> r.ret,
     before |-> before, after |-> r.pass]

NoCas(op, from_user_id, to_user_id, ext, before) ==
    [op |-> op, from |-> from_user_id, to |-> to_user_id, ext |-> ext,
     cas |-> "none", ret |-> FALSE, before |-> before, after |-> before]

\* A no-memo branch that makes the local transfer whoever the target is.
TransferNoMemoAnyTarget(op, p, from_user_id, to_user_id, t) ==
    LET r == transfer_pass_with_lock(p, from_user_id, to_user_id, t)
    IN  [pass |-> r.pass, ret |-> r.ret,
         call |-> Call(op, from_user_id, to_user_id, "none", r, p)]

\* poloseek.py: transfer_with_transport, the branch of a target without a
\* memo (lines 189-194).
TransferNoMemo(op, p, from_user_id, to_user_id, t) ==
    IF to_user_id = DEFAULT_OWNER_ID
    THEN LET r == transfer_pass_with_lock(p, from_user_id, to_user_id, t)
         IN  [pass |-> r.pass, ret |-> r.ret,
              call |-> Call(op, from_user_id, to_user_id, "none", r, p)]
    ELSE [pass |-> p, ret |-> FALSE,
          call |-> NoCas(op, from_user_id, to_user_id, "none", p)]

\* A transfer_with_transport that goes on to the compare-and-set whether or
\* not the external apply raised, for every target.
TransferAfterExtAlwaysCommit(op, p, from_user_id, to_user_id, ok, t) ==
    LET r == transfer_pass_with_lock(p, from_user_id, to_user_id, t)
    IN  [pass |-> r.pass, ret |-> r.ret,
         call |-> Call(op, from_user_id, to_user_id,
                       IF ok THEN "ok" ELSE "fail", r, p)]

\* poloseek.py: transfer_with_transport from the return of the external
\* apply (lines 201-211): ok is whether update_parking_pass returned, rather
\* than raised.
TransferAfterExt(op, p, from_user_id, to_user_id, ok, t) ==
    IF ok
    THEN LET r == transfer_pass_with_lock(p, from_user_id, to_user_id, t)
         IN  [pass |-> r.pass, ret |-> r.ret,
              call |-> Call(op, from_user_id, to_user_id, "ok", r, p)]
    ELSE IF to_user_id = DEFAULT_OWNER_ID
         THEN LET r == transfer_pass_with_lock(p, from_user_id, to_user_id, t)
              IN  [pass |-> r.pass, ret |-> r.ret,
                   call |-> Call(op, from_user_id, to_user_id, "fail", r, p)]
         ELSE [pass |-> p, ret |-> FALSE,
               call |-> NoCas(op, from_user_id, to_user_id, "fail", p)]

\* The failure kinds of section 7 of the design, read off a completed call.
Kind(c) ==
    CASE c.ext = "none" /\ c.cas = "none"  -> "NoMemo"
      [] c.ext = "none" /\ c.cas = "true"  -> "LocalOk"
      [] c.ext = "none" /\ c.cas = "false" -> "CasConflict"
      [] c.ext = "ok"   /\ c.cas = "true"  -> "Ok"
      [] c.ext = "ok"   /\ c.cas = "false" -> "Desync"
      [] c.ext = "fail" /\ c.cas = "none"  -> "ExternalEffectFailed"
      [] c.ext = "fail" /\ c.cas = "true"  -> "FallbackOk"
      [] c.ext = "fail" /\ c.cas = "false" -> "FallbackCasConflict"

\* ------------------------------------------------------------- the tick

\* poloseek.py: what the tick emits for a completed transfer c: the console
\* line of transfer_with_transport for a target without a memo (line 190) or
\* for an external apply that raised (line 207), and, only when the transfer
\* reported success, the channel notice of its caller (lines 138-145,
\* 150-152, 180-182).
TickNotices(c) ==
    (CASE c.ext = "none" -> <<"print_no_memo">>
       [] c.ext = "fail" -> <<"print_error">>
       [] c.ext = "ok"   -> <<>>)
    \o (IF c.ret THEN <<"channel_notice">> ELSE <<>>)

\* Where a tick stops: pc is "idle" when the pass is over, and names the
\* transfer whose external apply it awaits otherwise.
Halt(pc, i, to_user_id, rs, p, log) ==
    [pc |-> pc, i |-> i, to |-> to_user_id, rs |-> rs, pass |-> p, calls |-> log]

\* A handle_scheduled_starts that does not look at the owner's reservations.
handle_scheduled_starts_any_owner(S, rs, p, log, t) ==
    IF /\ S.next # <<>>
       /\ is_reservation_ready_to_start(S.next[1], S.now)
       /\ S.owner # S.next[1].user
    THEN IF get_user_memo(S.next[1].user)
         THEN Halt("ext_sched", 0, S.next[1].user, rs, p, log)
         ELSE LET x == TransferNoMemo("tick", p, S.owner, S.next[1].user, t)
              IN  Halt("idle", 0, DEFAULT_OWNER_ID, rs, x.pass, Append(log, x.call))
    ELSE Halt("idle", 0, DEFAULT_OWNER_ID, rs, p, log)

\* poloseek.py: handle_scheduled_starts up to the external apply; S is the
\* status the tick read, rs and p the store as it is now.
handle_scheduled_starts(S, rs, p, log, t) ==
    IF /\ S.next # <<>>
       /\ is_reservation_ready_to_start(S.next[1], S.now)
       /\ S.owner # S.next[1].user
       /\ \/ S.owner = DEFAULT_OWNER_ID
          \/ get_user_active_reservations(rs, S.owner, S.now) = <<>>
    THEN IF get_user_memo(S.next[1].user)
         THEN Halt("ext_sched", 0, S.next[1].user, rs, p, log)
         ELSE LET x == TransferNoMemo("tick", p, S.owner, S.next[1].user, t)
              IN  Halt("idle", 0, DEFAULT_OWNER_ID, rs, x.pass, Append(log, x.call))
    ELSE Halt("idle", 0, DEFAULT_OWNER_ID, rs, p, log)

RECURSIVE handle_expired_reservations(_, _, _, _, _, _)
RECURSIVE ExpiredToDefault(_, _, _, _, _, _)

\* A hand-back after which the loop goes on whatever the transfer returned.
AfterDefaultGoesOn(S, i, rs, p, log, ret, t) ==
    handle_expired_reservations(S, i + 1, rs, p, log, t)

\* poloseek.py: handle_expired_reservations, after the transfer to the
\* default owner returned ret (lines 150-153, then the loop goes on).
AfterDefault(S, i, rs, p, log, ret, t) ==
    IF ret
    THEN Halt("idle", 0, DEFAULT_OWNER_ID, rs, p, log)
    ELSE handle_expired_reservations(S, i + 1, rs, p, log, t)

\* poloseek.py: handle_expired_reservations, after the transfer to the next
\* approved user returned ret (lines 138-146, then line 149).
AfterNext(S, i, rs, p, log, ret, t) ==
    IF ret
    THEN Halt("idle", 0, DEFAULT_OWNER_ID, rs, p, log)
    ELSE ExpiredToDefault(S, i, rs, p, log, t)

\* poloseek.py: handle_expired_reservations, line 149.
ExpiredToDefault(S, i, rs, p, log, t) ==
    IF get_user_memo(DEFAULT_OWNER_ID)
    THEN Halt("ext_default", i, DEFAULT_OWNER_ID, rs, p, log)
    ELSE LET x == TransferNoMemo("tick", p, S.owner, DEFAULT_OWNER_ID, t)
         IN  AfterDefault(S, i, rs, x.pass, Append(log, x.call), x.ret, t)

\* poloseek.py: handle_expired_reservations, lines 129-137.
ExpiredToNext(S, i, rs, p, log, t) ==
    IF get_user_memo(S.next[1].user)
    THEN Halt("ext_next", i, S.next[1].user, rs, p, log)
    ELSE LET x == TransferNoMemo("tick", p, S.owner, S.next[1].user, t)
         IN  AfterNext(S, i, rs, x.pass, Append(log, x.call), x.ret, t)

\* A test of line 132 that applies the buffer of the scheduled starts.
NextHasStartedBuffered(S) ==
    S.next # <<>> /\ is_reservation_ready_to_start(S.next[1], S.now)

\* The test of line 132: the next approved reservation has started.
NextHasStarted(S) == S.next # <<>> /\ S.next[1].start <= S.now

\* poloseek.py: handle_expired_reservations from the i-th expired
\* reservation on, then check_expired_reservations lines 103-105.
handle_expired_reservations(S, i, rs, p, log, t) ==
    IF i > Len(S.expired)
    THEN handle_scheduled_starts(S, rs, p, log, t)
    ELSE LET rs1 == mark_reservation_inactive(rs, S.expired[i].user, S.expired[i].start)
         IN  IF S.owner = S.expired[i].user
             THEN IF NextHasStarted(S)
                  THEN ExpiredToNext(S, i, rs1, p, log, t)
                  ELSE ExpiredToDefault(S, i, rs1, p, log, t)
             ELSE handle_expired_reservations(S, i + 1, rs1, p, log, t)

\* ------------------------------------------------------------ the state

TickIdle ==
    [pc |-> "idle", now |-> 0, owner |-> DEFAULT_OWNER_ID, expired |-> <<>>,
     next |-> <<>>, i |-> 0, to |-> DEFAULT_OWNER_ID]

HandlerIdle == [pc |-> "idle", user |-> DEFAULT_OWNER_ID, owner |-> DEFAULT_OWNER_ID]

\* database.py: init_database, and PoloSeek.__init__.  The users table is
\* filled by a registration path outside the engine: any set of users may
\* have a memo.
Init ==
    /\ now = 0
    /\ pass = init_database(<<>>, 0)[1]
    /\ reservations = <<>>
    /\ memos \in SUBSET Users
    /\ last_check_time = NoTime
    /\ lastApply = <<>>
    /\ tick = TickIdle
    /\ give = HandlerIdle
    /\ approve = HandlerIdle
    /\ revoke = HandlerIdle
    /\ calls = <<>>
    /\ done = <<>>
    /\ quiet = FALSE

\* What Scraper.update_parking_pass may do: return (TRUE) or raise (FALSE).
ExtResults == IF quiet THEN {TRUE} ELSE BOOLEAN

\* The clock advances by one second.
Advance ==
    /\ now < MaxTime
    /\ now' = now + 1
    /\ calls' = <<>>
    /\ done' = <<>>
    /\ UNCHANGED <<pass, reservations, memos, last_check_time, lastApply,
                   tick, give, approve, revoke, quiet>>

\* What a tick leaves behind when it stops with result r.
TickStops(S, r) ==
    /\ reservations' = r.rs
    /\ pass' = r.pass
    /\ calls' = r.calls
    /\ tick' = IF r.pc = "idle" THEN TickIdle
               ELSE [pc |-> r.pc, now |-> S.now, owner |-> S.owner,
                     expired |-> S.expired, next |-> S.next, i |-> r.i, to |-> r.to]
    /\ done' = IF r.pc = "idle" THEN <<S>> ELSE <<>>

\* A guard that never finds the invocation in the second of the last pass.
SameSecondNever == FALSE

\* poloseek.py: the guard of check_expired_reservations, line 85.
SameSecond ==
    /\ last_check_time # NoTime
    /\ last_check_time % SecondsPerMinute = now % SecondsPerMinute

\* poloseek.py: check_expired_reservations, from its start to the first
\* external apply or to its end.
TickBegin ==
    /\ tick.pc = "idle"
    /\ ~SameSecond
    /\ last_check_time' = now
    /\ LET S == get_reservation_status(pass, reservations, now)
       IN  TickStops(S, handle_expired_reservations(S, 1, reservations, pass, <<>>, now))
    /\ UNCHANGED <<now, memos, lastApply, give, approve, revoke, quiet>>

\* poloseek.py: check_expired_reservations, an invocation that line 85 finds
\* in the second of the last processed pass and line 86 ends.
TickSkip ==
    /\ tick.pc = "idle"
    /\ SameSecond
    /\ calls' = <<>>
    /\ done' = <<>>
    /\ UNCHANGED <<now, pass, reservations, memos, last_check_time, lastApply,
                   tick, give, approve, revoke, quiet>>

\* poloseek.py: check_expired_reservations, from the return of an external
\* apply to the next one or to its end.
TickExtReturn(ok) ==
    /\ tick.pc # "idle"
    /\ lastApply' = <<[to |-> tick.to, ok |-> ok]>>
    /\ LET S == [now |-> tick.now, owner |-> tick.owner,
                 expired |-> tick.expired, next |-> tick.next]
           x == TransferAfterExt("tick", pass, tick.owner, tick.to, ok, now)
       IN  TickStops(S,
              CASE tick.pc = "ext_next" ->
                     AfterNext(S, tick.i, reservations, x.pass, <<x.call>>, x.ret, now)
                [] tick.pc = "ext_default" ->
                     AfterDefault(S, tick.i, reservations, x.pass, <<x.call>>, x.ret, now)
                [] tick.pc = "ext_sched" ->
                     Halt("idle", 0, DEFAULT_OWNER_ID, reservations, x.pass, <<x.call>>))
    /\ UNCHANGED <<now, memos, last_check_time, give, approve, revoke, quiet>>

\* ---------------------------------------------------------- the commands

\* What request_command does when it creates the reservation (lines 171-176).
RequestCreates(rs, caller, target, start_time, end_time) ==
    LET rs1 == create_reservation(rs, target, start_time, end_time)
    IN  [outcome |-> "created",
         rs |-> IF caller = OWNER_ID
                THEN approve_reservation_by_details(rs1, target, start_time)
                ELSE rs1]

\* A request_command that does not look for conflicts.
request_command_unchecked(rs, caller, target, start_time, end_time, t) ==
    IF ~(caller = OWNER_ID \/ target = caller)
    THEN [outcome |-> "denied", rs |-> rs]
    ELSE IF start_time <= t
    THEN [outcome |-> "invalid_start", rs |-> rs]
    ELSE IF end_time <= start_time
    THEN [outcome |-> "invalid_range", rs |-> rs]
    ELSE RequestCreates(rs, caller, target, start_time, end_time)

\* commands.py: request_command by caller for target (target = caller stands
\* for a command without the user option), with the clock at t: the reply it
\* sends and the reservations table it leaves.
request_command(rs, caller, target, start_time, end_time, t) ==
    IF ~(caller = OWNER_ID \/ target = caller)
    THEN [outcome |-> "denied", rs |-> rs]
    ELSE IF start_time <= t
    THEN [outcome |-> "invalid_start", rs |-> rs]
    ELSE IF end_time <= start_time
    THEN [outcome |-> "invalid_range", rs |-> rs]
    ELSE IF check_reservation_conflicts(rs, start_time, end_time) # <<>>
    THEN [outcome |-> "conflict", rs |-> rs]
    ELSE RequestCreates(rs, caller, target, start_time, end_time)

\* commands.py: request_command, a request that is accepted.  A request that
\* is refused writes nothing: it is a stuttering step.
Request(caller, target, start_time, end_time) ==
    /\ ~quiet
    /\ Len(reservations) < MaxRes
    /\ LET x == request_command(reservations, caller, target,
                                start_time, end_time, now)
       IN  /\ x.outcome = "created"
           /\ reservations' = x.rs
    /\ calls' = <<>>
    /\ done' = <<>>
    /\ UNCHANGED <<now, pass, memos, last_check_time, lastApply,
                   tick, give, approve, revoke, quiet>>

\* commands.py: give_command up to the external apply (lines 287-300).
GiveBegin(user) ==
    /\ ~quiet
    /\ give.pc = "idle"
    /\ get_user_memo(user)
    /\ give' = [pc |-> "ext", user |-> user, owner |-> DEFAULT_OWNER_ID]
    /\ calls' = <<>>
    /\ done' = <<>>
    /\ UNCHANGED <<now, pass, reservations, memos, last_check_time, lastApply,
                   tick, approve, revoke, quiet>>

\* commands.py: give_command from the return of the external apply (lines
\* 302-331).
GiveCommit(p, user, ok, t) ==
    IF ok
    THEN LET r == transfer_pass_with_lock(p, p.owner, user, t)
         IN  [pass |-> r.pass, call |-> Call("give", p.owner, user, "ok", r, p)]
    ELSE [pass |-> p, call |-> NoCas("give", p.owner, user, "fail", p)]

GiveExtReturn(ok) ==
    /\ give.pc = "ext"
    /\ lastApply' = <<[to |-> give.user, ok |-> ok]>>
    /\ LET x == GiveCommit(pass, give.user, ok, now)
       IN  /\ pass' = x.pass
           /\ calls' = <<x.call>>
    /\ give' = HandlerIdle
    /\ done' = <<>>
    /\ UNCHANGED <<now, reservations, memos, last_check_time,
                   tick, approve, revoke, quiet>>

\* commands.py: approve_command up to the external apply (lines 348-383).
\* The handler reads the clock twice, in the query of line 349 and at line
\* 364; d is the number of seconds the clock advanced between the two.
Approve(user, d) ==
    /\ ~quiet
    /\ approve.pc = "idle"
    /\ now + d <= MaxTime
    /\ LET next_reservation ==
               get_user_next_unapproved_reservation(reservations, user, now)
       IN  /\ next_reservation # <<>>
           /\ reservations' = approve_reservation_by_details(
                                  reservations, user, next_reservation[1].start)
           /\ now' = now + d
           /\ approve' =
                 IF /\ next_reservation[1].start <= now + d
                    /\ pass.owner = DEFAULT_OWNER_ID
                    /\ get_user_memo(user)
                 THEN [pc |-> "ext", user |-> user, owner |-> pass.owner]
                 ELSE HandlerIdle
    /\ calls' = <<>>
    /\ done' = <<>>
    /\ UNCHANGED <<pass, memos, last_check_time, lastApply, tick, give, revoke, quiet>>

\* commands.py: approve_command from the return of the external apply (lines
\* 385-393).
ApproveCommit(p, from_user_id, user, ok, t) ==
    IF ok
    THEN LET r == transfer_pass_with_lock(p, from_user_id, user, t)
         IN  [pass |-> r.pass, call |-> Call("approve", from_user_id, user, "ok", r, p)]
    ELSE [pass |-> p, call |-> NoCas("approve", from_user_id, user, "fail", p)]

ApproveExtReturn(ok) ==
    /\ approve.pc = "ext"
    /\ lastApply' = <<[to |-> approve.user, ok |-> ok]>>
    /\ LET x == ApproveCommit(pass, approve.owner, approve.user, ok, now)
       IN  /\ pass' = x.pass
           /\ calls' = <<x.call>>
    /\ approve' = HandlerIdle
    /\ done' = <<>>
    /\ UNCHANGED <<now, reservations, memos, last_check_time,
                   tick, give, revoke, quiet>>

\* commands.py: revoke_command up to the external apply of the hand-back, or
\* to its end (lines 439-470).
Revoke(user) ==
    /\ ~quiet
    /\ revoke.pc = "idle"
    /\ LET most_recent ==
               get_user_most_recent_approved_reservation(reservations, user)
       IN  /\ most_recent # <<>>
           /\ reservations' = mark_reservation_inactive(
                                  reservations, user, most_recent[1].start)
           /\ IF /\ most_recent[1].start <= now
                 /\ now <= most_recent[1].end
                 /\ pass.owner = user
              THEN IF get_user_memo(DEFAULT_OWNER_ID)
                   THEN /\ revoke' = [pc |-> "ext", user |-> user, owner |-> user]
                        /\ UNCHANGED pass
                        /\ calls' = <<>>
                   ELSE LET x == TransferNoMemo("revoke", pass, user,
                                                DEFAULT_OWNER_ID, now)
                        IN  /\ pass' = x.pass
                            /\ calls' = <<x.call>>
                            /\ UNCHANGED revoke
              ELSE UNCHANGED <<pass, revoke>> /\ calls' = <<>>
    /\ done' = <<>>
    /\ UNCHANGED <<now, memos, last_check_time, lastApply, tick, give, approve, quiet>>

\* commands.py: revoke_command from the return of the external apply of the
\* hand-back (line 470, in transfer_with_transport).
RevokeExtReturn(ok) ==
    /\ revoke.pc = "ext"
    /\ lastApply' = <<[to |-> DEFAULT_OWNER_ID, ok |-> ok]>>
    /\ LET x == TransferAfterExt("revoke", pass, revoke.user, DEFAULT_OWNER_ID, ok, now)
       IN  /\ pass' = x.pass
           /\ calls' = <<x.call>>
    /\ revoke' = HandlerIdle
    /\ done' = <<>>
    /\ UNCHANGED <<now, reservations, memos, last_check_time,
                   tick, give, approve, quiet>>

\* poloseek.py: PoloSeek.cleanup_old_reservations, the daily sweep.
CleanupSweep ==
    /\ reservations' =
           cleanup_old_reservations(reservations, now - RetentionSeconds).rs
    /\ calls' = <<>>
    /\ done' = <<>>
    /\ UNCHANGED <<now, pass, memos, last_check_time, lastApply,
                   tick, give, approve, revoke, quiet>>

\* The operators stop issuing commands, once none is in flight.
Quiesce ==
    /\ ~quiet
    /\ tick.pc = "idle" /\ give.pc = "idle"
    /\ approve.pc = "idle" /\ revoke.pc = "idle"
    /\ quiet' = TRUE
    /\ calls' = <<>>
    /\ done' = <<>>
    /\ UNCHANGED <<now, pass, reservations, memos, last_check_time, lastApply,
                   tick, give, approve, revoke>>

Next ==
    \/ Advance
    \/ TickBegin
    \/ TickSkip
    \/ \E ok \in ExtResults : TickExtReturn(ok)
    \/ \E caller \in Users, target \in Users, s \in Times, e \in Times :
           Request(caller, target, s, e)
    \/ \E u \in Users : GiveBegin(u)
    \/ \E ok \in ExtResults : GiveExtReturn(ok)
    \/ \E u \in Users, d \in {0, 1} : Approve(u, d)
    \/ \E ok \in ExtResults : ApproveExtReturn(ok)
    \/ \E u \in Users : Revoke(u)
    \/ \E ok \in ExtResults : RevokeExtReturn(ok)
    \/ CleanupSweep

Spec == Init /\ [][Next]_vars

\* The system with operators that may fall silent for good.
NextQuiet == Next \/ Quiesce

SpecQuiet == Init /\ [][NextQuiet]_vars

\* The reservations a table can hold: any user, start before end, any flags.
Rows ==
    {r \in [user : Users, start : Times, end : Times,
             active : BOOLEAN, approved : BOOLEAN] : r.start < r.end}

\* The tables of at most MaxRes rows.
Tables ==
    {<<>>} \cup {<<r>> : r \in Rows} \cup {<<r, q>> : r \in Rows, q \in Rows}

\* The bot a retention window later: whatever table the earlier run and its
\* restarts left, the clock RetentionSeconds and a few more on.
InitSweep ==
    /\ now \in {RetentionSeconds + c : c \in 0..(MaxTime + 1)}
    /\ pass \in [owner : Users, last_updated : {0}]
    /\ reservations \in Tables
    /\ memos = Users
    /\ last_check_time = NoTime
    /\ lastApply = <<>>
    /\ tick = TickIdle
    /\ give = HandlerIdle
    /\ approve = HandlerIdle
    /\ revoke = HandlerIdle
    /\ calls = <<>>
    /\ done = <<>>
    /\ quiet = FALSE

\* The daily sweep alone, on the tables a retention window old.
SpecSweep == InitSweep /\ [][CleanupSweep]_vars

\* The time between two invocations of the tick loop: a second, or as long
\* as the bot is not ready or a handler blocks the event loop.
Elapse ==
    /\ now' \in (now + 1)..MaxClock
    /\ calls' = <<>>
    /\ done' = <<>>
    /\ UNCHANGED <<pass, reservations, memos, last_check_time, lastApply,
                   tick, give, approve, revoke, quiet>>

NextGuard ==
    \/ Elapse
    \/ TickBegin
    \/ TickSkip

\* The tick loop alone, over more than two minutes of the clock.
SpecGuard == Init /\ [][NextGuard]_vars

\* The clock of the specification of the tick's progress runs a second past
\* MaxTime for every row a table can hold.
LiveClock == MaxTime + MaxRes

\* The clock advances by one second, in a run where the loop of
\* tasks.loop(seconds=1) is invoked in every second: the second of the clock
\* has had its invocation.
AdvanceLive ==
    /\ now < LiveClock
    /\ last_check_time = now
    /\ now' = now + 1
    /\ calls' = <<>>
    /\ done' = <<>>
    /\ UNCHANGED <<pass, reservations, memos, last_check_time, lastApply,
                   tick, give, approve, revoke, quiet>>

\* The tick loop with /request, which fills the table, and /give, which
\* makes any user the owner.
NextLive ==
    \/ AdvanceLive
    \/ TickBegin
    \/ TickSkip
    \/ \E ok \in ExtResults : TickExtReturn(ok)
    \/ \E caller \in Users, target \in Users, s \in Times, e \in Times :
           Request(caller, target, s, e)
    \/ \E u \in Users : GiveBegin(u)
    \/ \E ok \in ExtResults : GiveExtReturn(ok)

\* The program with a tick loop that keeps being processed: time passes, the
\* loop is invoked while it is due, and an external apply it awaits returns
\* or raises.
SpecLive ==
    /\ Init
    /\ [][NextLive]_vars
    /\ WF_vars(AdvanceLive)
    /\ WF_vars(TickBegin)
    /\ WF_vars(\E ok \in ExtResults : TickExtReturn(ok))

\* ------------------------------------------------------------ the claims

\* The calls of transfer_with_transport among the transfers of the last step.
IsTransport(c) == c.op \in {"tick", "revoke"}

CallsOfStep == {calls[k] : k \in DOMAIN calls}

C2_DesyncIsDistinct ==
    \A c \in CallsOfStep :
        (IsTransport(c) /\ Kind(c) = "Desync") =>
            \A u \in Users \ {DEFAULT_OWNER_ID} :
                /\ c.ret # TransferAfterExt(c.op, pass, c.from, u, FALSE, now).ret
                /\ c.ret # TransferNoMemo(c.op, pass, c.from, u, now).ret

C4_CompareAndSet ==
    /\ \A A \in Users, B \in Users :
           LET r == transfer_pass_with_lock(pass, A, B, now)
           IN  IF pass.owner # A
               THEN ~r.ret /\ r.pass = pass
               ELSE r.ret /\ r.pass.owner = B
    /\ \A c \in CallsOfStep :
           /\ c.cas = "false" => (c.before.owner # c.from /\ c.after = c.before)
           /\ c.cas = "true" => (c.before.owner = c.from /\ c.after.owner = c.to)

\* C4 witness: a compare-and-set has just failed on a mismatch, at a clock
\* value later than the row's last update.
C4_Witness ==
    \E c \in CallsOfStep :
        /\ c.cas = "false" /\ c.before.owner # c.from
        /\ now > c.before.last_updated
        /\ pass = c.before

\* C5: every change of the owner is made by a compare-and-set that returned
\* True and whose expected owner was the owner right before the change.
C5_OwnerChangesByCas ==
    [][pass'.owner # pass.owner =>
          \E k \in DOMAIN calls' :
              /\ calls'[k].cas = "true"
              /\ calls'[k].from = pass.owner
              /\ calls'[k].to = pass'.owner
              /\ calls'[k].before = pass
              /\ calls'[k].after = pass']_vars

\* C5 witness: the owner has just changed, in a /give while a tick or a
\* /revoke that read an older owner is still waiting.
C5_Witness ==
    \E c \in CallsOfStep :
        /\ c.op = "give" /\ c.cas = "true" /\ c.before.owner # c.to
        /\ pass = c.after
        /\ \/ tick.pc # "idle" /\ tick.owner # pass.owner
           \/ revoke.pc = "ext" /\ revoke.user # pass.owner

\* The values k successive identical calls return when exactly the first one
\* succeeds.
FirstOnly(k) == [j \in 1..k |-> j = 1]

\* C6 as stated: whenever a call transfer_pass_with_lock(from, to) was made
\* while the owner was from, then of any number of identical calls made in its
\* place exactly the first returns True.
C6_ExactlyOneSucceeds ==
    \A c \in CallsOfStep, k \in 1..MaxCalls :
        (c.cas # "none" /\ c.before.owner = c.from) =>
            RepeatedTransfer(c.before, c.from, c.to, now, k) = FirstOnly(k)

\* C6 amended: for every pair (from, to) with from # to, of any number of
\* identical calls made while the owner is from exactly the first returns
\* True, the later ones False; so it is of the calls the handlers made.
C6_ExactlyOneSucceedsWhenDistinct ==
    /\ \A A \in Users, B \in Users, k \in 1..MaxCalls :
           (pass.owner = A /\ A # B) =>
               RepeatedTransfer(pass, A, B, now, k) = FirstOnly(k)
    /\ \A c \in CallsOfStep, k \in 1..MaxCalls :
           (c.cas # "none" /\ c.before.owner = c.from /\ c.from # c.to) =>
               RepeatedTransfer(c.before, c.from, c.to, now, k) = FirstOnly(k)

\* C6 witness: a transfer between two different users has just succeeded, so
\* that a repeated identical call now meets the changed owner.
C6_Witness ==
    \E c \in CallsOfStep :
        /\ c.cas = "true" /\ c.from # c.to /\ pass = c.after
        /\ ~transfer_pass_with_lock(pass, c.from, c.to, now).ret

\* The winner w of a race has committed in the last step, after its external
\* apply, while the other transfer_with_transport call, given the same from,
\* still awaits its external apply, and that call completes in this step.
LoserCompletes(w) ==
    /\ IsTransport(w)
    /\ w.ext # "none"
    /\ w.cas = "true"
    /\ pass = w.after
    /\ \/ /\ w.op = "tick"
          /\ revoke.pc = "ext" /\ revoke.user = w.from
          /\ revoke'.pc = "idle"
       \/ /\ w.op = "revoke"
          /\ tick.pc # "idle" /\ tick.owner = w.from
          /\ calls' # <<>> /\ calls'[1].op = "tick"

\* What C7 says of the loser: no call of its step commits, it reports
\* failure, and the owner stays the winner's target.
LoserFails(w) ==
    /\ \A k \in DOMAIN calls' : calls'[k].cas # "true" /\ ~calls'[k].ret
    /\ pass' = pass
    /\ pass.owner = w.to

\* C7 as stated: of two concurrent transfer_with_transport calls given the
\* same from, at most one commits: the one that completes after the winner
\* reports failure and the owner stays the winner's target.
C7_AtMostOneCommits ==
    [][\A k \in DOMAIN calls :
           LoserCompletes(calls[k]) => LoserFails(calls[k])]_vars

\* C7 amended: the same, when the winner's target differs from from.
C7_AtMostOneCommitsWhenDistinct ==
    [][\A k \in DOMAIN calls :
           (LoserCompletes(calls[k]) /\ calls[k].to # calls[k].from)
               => LoserFails(calls[k])]_vars

\* C7 witness: a tick and a /revoke were given the same from and both started
\* their external apply; the tick has just committed to another user and the
\* /revoke is about to complete.
C7_Witness ==
    \E c \in CallsOfStep :
        /\ c.op = "tick" /\ c.ext = "ok" /\ c.cas = "true" /\ c.to # c.from
        /\ pass = c.after
        /\ revoke.pc = "ext" /\ revoke.user = c.from

\* Two rows overlap in time.
Overlap(a, b) == a.start < b.end /\ b.start < a.end

\* C8 as stated: no two distinct reservations that are both active and
\* approved overlap.
C8_NoApprovedOverlap ==
    \A i \in DOMAIN reservations, j \in DOMAIN reservations :
        (/\ i # j
         /\ reservations[i].active /\ reservations[i].approved
         /\ reservations[j].active /\ reservations[j].approved)
            => ~Overlap(reservations[i], reservations[j])

\* The tick pass the last step finished read a next approved reservation
\* that had started at least a second before.
TickSawReady ==
    /\ done # <<>>
    /\ done[1].next # <<>>
    /\ done[1].next[1].start <= done[1].now - 1

\* The rows of the store that are the reservation R of a tick's status.
IsRow(r, R) == r.user = R.user /\ r.start = R.start /\ r.end = R.end

\* The store holds an active reservation of user_id that covers t.
Covers(user_id, t) ==
    \E k \in DOMAIN reservations :
        /\ reservations[k].user = user_id /\ reservations[k].active
        /\ reservations[k].start <= t /\ t < reservations[k].end

\* No two approved reservations, active or retired, overlap: the schedule
\* never held two approved reservations for the same moment.
NeverApprovedOverlap ==
    \A i \in DOMAIN reservations, j \in DOMAIN reservations :
        (i # j /\ reservations[i].approved /\ reservations[j].approved)
            => ~Overlap(reservations[i], reservations[j])

\* C9 as stated (on a schedule whose approved reservations never overlapped):
\* with no further commands, every user having a memo and the external
\* applies succeeding, a tick that finds an active approved reservation
\* started at least a second ago leaves its user (of the earliest-starting
\* one) as the owner, whoever the owner was.
C9_TickInstallsReady ==
    (quiet /\ memos = Users /\ TickSawReady /\ NeverApprovedOverlap) =>
        pass.owner = done[1].next[1].user

\* C9 amended: the same, provided the owner the tick found is that user, or is
\* the default owner, or has a reservation that expires at that tick, or has
\* no active reservation covering the tick's time; an owner who still has an
\* active reservation (approved or not) covering that time keeps the pass.
C9_TickInstallsReadyUnlessHeld ==
    (quiet /\ memos = Users /\ TickSawReady) =>
        IF \/ done[1].owner = done[1].next[1].user
           \/ done[1].owner = DEFAULT_OWNER_ID
           \/ \E i \in DOMAIN done[1].expired : done[1].expired[i].user = done[1].owner
           \/ ~Covers(done[1].owner, done[1].now)
        THEN pass.owner = done[1].next[1].user
        ELSE pass.owner = done[1].owner

\* C9 witness: in the quiet system a tick has just taken the pass from a
\* non-default owner whose time had lapsed and given it to the user of the
\* started reservation.
C9_Witness ==
    /\ quiet /\ memos = Users /\ TickSawReady
    /\ done[1].owner # DEFAULT_OWNER_ID
    /\ done[1].owner # done[1].next[1].user
    /\ pass.owner = done[1].next[1].user

\* The tick pass the last step finished read an expired reservation of the
\* owner and no approved reservation that had started.
TickSawExpiredOwner ==
    /\ done # <<>>
    /\ ~(done[1].next # <<>> /\ done[1].next[1].start <= done[1].now)
    /\ \E i \in DOMAIN done[1].expired : done[1].expired[i].user = done[1].owner

\* The first expired reservation of the owner in the status S of a tick.
FirstOfOwner(S) ==
    CHOOSE i \in DOMAIN S.expired :
        /\ S.expired[i].user = S.owner
        /\ \A j \in 1..(i - 1) : S.expired[j].user # S.owner

Inactive(R) ==
    \A k \in DOMAIN reservations : IsRow(reservations[k], R) => ~reservations[k].active

\* A compare-and-set of the tick's last step met an owner other than the one
\* the tick had read.
TickLostRace ==
    \E c \in CallsOfStep : c.op = "tick" /\ c.cas = "false"

\* C10 as stated (for a tick no other handler raced with): if a tick finds an
\* expired active reservation R of the owner, and no approved reservation
\* that has started, then after the tick R is inactive and the owner is the
\* default owner.
C10_ExpiryHandsBack ==
    (TickSawExpiredOwner /\ ~TickLostRace) =>
        /\ pass.owner = DEFAULT_OWNER_ID
        /\ \A i \in DOMAIN done[1].expired :
               done[1].expired[i].user = done[1].owner => Inactive(done[1].expired[i])

\* C10 amended: in that case, after the tick every expired reservation up to
\* and including the first one of the owner is inactive, and the owner is the
\* default owner unless the hand-back's compare-and-set met an owner that
\* another handler had set meanwhile.
C10_ExpiryHandsBackFirst ==
    TickSawExpiredOwner =>
        /\ pass.owner = DEFAULT_OWNER_ID \/ TickLostRace
        /\ \A i \in 1..FirstOfOwner(done[1]) : Inactive(done[1].expired[i])

\* C10 witness: a tick has just retired the expired reservation of a
\* non-default owner and handed the pass back to the default owner.
C10_Witness ==
    /\ TickSawExpiredOwner
    /\ done[1].owner # DEFAULT_OWNER_ID
    /\ pass.owner = DEFAULT_OWNER_ID
    /\ Inactive(done[1].expired[FirstOfOwner(done[1])])

\* The calls of the tick among the transfers of the last step.
TickCalls == {c \in CallsOfStep : c.op = "tick"}

\* The tick pass the last step finished found the default owner holding the
\* pass, no expired reservation, and a next approved reservation that had
\* started at least a second before and whose user has a memo.
TickSawDefaultReady ==
    /\ done # <<>>
    /\ done[1].owner = DEFAULT_OWNER_ID
    /\ done[1].expired = <<>>
    /\ done[1].next # <<>>
    /\ done[1].next[1].start <= done[1].now - 1
    /\ done[1].next[1].user \in memos

\* C11: if a tick finds the default owner holding the pass, no expired
\* reservation, and the earliest-starting active approved reservation with
\* end_time > now started at least a second ago, its user having a memo, and
\* the external apply succeeds (the owner still being the default owner
\* when the compare-and-set runs), then after the tick the owner is that
\* reservation's user.
C11_DefaultYieldsToReady ==
    (/\ TickSawDefaultReady
     /\ \A c \in TickCalls : c.ext = "ok" /\ c.before.owner = done[1].owner)
        => pass.owner = done[1].next[1].user

\* C11 witness: such a tick has just moved the pass from the default owner to
\* another user, whose reservation started exactly a second before.
C11_Witness ==
    /\ TickSawDefaultReady
    /\ done[1].next[1].user # DEFAULT_OWNER_ID
    /\ done[1].next[1].start = done[1].now - 1
    /\ \E c \in TickCalls : c.ext = "ok" /\ c.cas = "true" /\ c.to = done[1].next[1].user
    /\ pass.owner = done[1].next[1].user

\* The transfers a tick has attempted by the end of the last step: those it
\* completed in that step, and the one whose external apply it now awaits.
TickAttempts ==
    Cardinality({k \in DOMAIN calls : calls[k].op = "tick"})
        + (IF tick.pc # "idle" THEN 1 ELSE 0)

\* C12 as stated, for the transfers: a tick that has attempted a transfer
\* while handling expirations attempts no second transfer, so no step of a
\* tick completes one attempt and goes on to another.
C12_OneAttemptPerTick == TickAttempts <= 1

\* The conditions under which the scheduled-start step may attempt a
\* transfer, for a tick that read the status S, on the reservations rs.
StartAllowed(S, rs) ==
    /\ S.next # <<>>
    /\ S.next[1].start <= S.now - 1
    /\ S.next[1].user # S.owner
    /\ \/ S.owner = DEFAULT_OWNER_ID
       \/ ~\E k \in DOMAIN rs :
               /\ rs[k].user = S.owner /\ rs[k].active
               /\ rs[k].start <= S.now /\ S.now < rs[k].end

\* The tick pass the last step finished found no expired reservation of the
\* owner, so every transfer it attempted belongs to its scheduled-start step.
TickOnlyScheduled ==
    /\ done # <<>>
    /\ \A i \in DOMAIN done[1].expired : done[1].expired[i].user # done[1].owner

\* C13: the scheduled-start step of a tick attempts a transfer to the user of
\* next_approved only if no transfer of the expiration handling succeeded in
\* that tick, next_approved started at least a second ago, its user is not
\* the owner, and the owner is the default owner or has no active
\* reservation covering now; a transfer it commits never takes the pass from
\* a non-default owner who has an active reservation covering now.
C13_ScheduledStartGuarded ==
    /\ tick.pc = "ext_sched" =>
           /\ StartAllowed(tick, reservations)
           /\ tick.to = tick.next[1].user
           /\ \A c \in TickCalls : ~c.ret
    /\ LET S == get_reservation_status(pass, reservations, now)
           r == handle_scheduled_starts(S, reservations, pass, <<>>, now)
       IN  (r.pc = "ext_sched" \/ r.calls # <<>>) => StartAllowed(S, reservations)
    /\ TickOnlyScheduled =>
           \A c \in TickCalls :
               /\ StartAllowed(done[1], reservations)
               /\ c.to = done[1].next[1].user
               /\ (c.cas = "true" /\ c.from # DEFAULT_OWNER_ID)
                      => ~Covers(c.from, done[1].now)

\* C13 witness: the scheduled-start step has just taken the pass from a
\* non-default owner, who holds no active reservation covering now, and given
\* it to the user of the started reservation.
C13_Witness ==
    /\ TickOnlyScheduled
    /\ \E c \in TickCalls :
           /\ c.cas = "true" /\ c.from # DEFAULT_OWNER_ID /\ c.to # c.from
           /\ pass.owner = c.to

\* A step of the tick: it moves the tick on, or finishes a pass.
TickStep == tick' # tick \/ done' # <<>>

\* The status the tick of this step works from.
StepStatus ==
    IF tick.pc = "idle" THEN get_reservation_status(pass, reservations, now) ELSE tick

\* A failed transfer of the tick whose failure is not a compare-and-set that
\* met an owner set by another handler.
FailedAlone(c) == c.op = "tick" /\ ~c.ret /\ c.before.owner = c.from

FailedCallsKeepPass ==
    \A c \in TickCalls : ~c.ret => c.after = c.before

\* After a transfer that failed, the tick did not go on, in the same step, to
\* a transfer with the same target.
FailedNotRetried ==
    \A k \in DOMAIN calls :
        FailedAlone(calls[k]) =>
            /\ \A l \in DOMAIN calls : l > k => calls[l].to # calls[k].to
            /\ tick.pc # "idle" => tick.to # calls[k].to

\* The tick changes reservations only by retiring rows that match an expired
\* reservation of its status.
OnlyRetiresExpired ==
    /\ DOMAIN reservations' = DOMAIN reservations
    /\ \A k \in DOMAIN reservations :
           \/ reservations'[k] = reservations[k]
           \/ /\ reservations'[k] = [reservations[k] EXCEPT !.active = FALSE]
              /\ \E i \in DOMAIN StepStatus.expired :
                     /\ StepStatus.expired[i].user = reservations[k].user
                     /\ StepStatus.expired[i].start = reservations[k].start

\* With no command in between, a tick that found no expired reservation and
\* whose transfer failed leaves a store in which the same pass over the same
\* clock reading observes the same status and makes the same attempt.
FailedScheduledRegenerates ==
    (quiet /\ done # <<>> /\ done[1].expired = <<>>) =>
        \A c \in TickCalls :
            ~c.ret =>
                LET S == get_reservation_status(pass, reservations, done[1].now)
                    r == handle_expired_reservations(S, 1, reservations, pass,
                                                     <<>>, done[1].now)
                IN  /\ S = done[1]
                    /\ pass = c.before
                    /\ \/ r.pc = "ext_sched" /\ r.to = c.to
                       \/ /\ r.pc = "idle" /\ Len(r.calls) = 1
                          /\ r.calls[1].from = c.from /\ r.calls[1].to = c.to
                          /\ ~r.calls[1].ret

PassBegins == tick.pc = "idle" /\ (tick'.pc # "idle" \/ done' # <<>>)

\* C15: a reconciliation pass begins only in a second later than that of the
\* last processed pass, whose second last_check_time records: an invocation
\* in the same second performs no pass, so each second sees at most one.
C15_OnePassPerSecond ==
    [][/\ PassBegins =>
              /\ last_check_time = NoTime \/ last_check_time < now
              /\ last_check_time' = now
       /\ (tick.pc = "idle" /\ last_check_time = now) =>
              (tick' = tick /\ last_check_time' = last_check_time)]_vars

\* C15 witness: a pass has just been processed in this second and the tick is
\* idle, so that the next invocation in this second is skipped.
C15_Witness ==
    /\ tick.pc = "idle" /\ done # <<>>
    /\ SameSecond /\ last_check_time = now
    /\ ENABLED TickSkip

\* C16 as stated: for a transfer of the tick that ends in a desync (the
\* external apply succeeded, the compare-and-set failed) something is
\* emitted that an operator can see.
C16_TickDesyncIsNotified ==
    \A c \in TickCalls : Kind(c) = "Desync" => TickNotices(c) # <<>>

\* C17: transfer_with_transport(from, to) for a target without a memo makes
\* no external apply; for the default owner it does the local
\* compare-and-set and reports its result, for any other target it reports
\* failure and leaves the pass row as it was.
C17_NoMemoTransfer ==
    \A c \in CallsOfStep :
        (IsTransport(c) /\ c.to \notin memos) =>
            /\ c.ext = "none"
            /\ IF c.to = DEFAULT_OWNER_ID
               THEN /\ c.cas # "none"
                    /\ c.ret = (c.before.owner = c.from)
                    /\ c.after = transfer_pass_with_lock(
                                     c.before, c.from, c.to, c.after.last_updated).pass
               ELSE /\ c.cas = "none"
                    /\ ~c.ret
                    /\ c.after = c.before

\* C17 witness: a tick has just been refused the transfer to a non-default
\* user without a memo, from the user who does hold the pass.
C17_Witness ==
    \E c \in TickCalls :
        /\ c.to \notin memos /\ c.to # DEFAULT_OWNER_ID
        /\ c.before.owner = c.from
        /\ ~c.ret /\ pass = c.before

\* C18 as stated: no two distinct active reservations of one user have the
\* same start_time.
C18_UniqueUserStart ==
    \A i \in DOMAIN reservations, j \in DOMAIN reservations :
        (/\ i # j
         /\ reservations[i].active /\ reservations[j].active
         /\ reservations[i].user = reservations[j].user)
            => reservations[i].start # reservations[j].start

\* What /revoke of user_id does to the reservations: it retires the most
\* recent approved reservation of the user and leaves every approved flag.
RevokeKeepsApproval(user_id) ==
    LET most_recent ==
            get_user_most_recent_approved_reservation(reservations, user_id)
        rs2 == mark_reservation_inactive(reservations, user_id, most_recent[1].start)
    IN  most_recent # <<>> =>
            /\ \A k \in DOMAIN reservations :
                   /\ rs2[k].approved = reservations[k].approved
                   /\ IsRow(reservations[k], most_recent[1]) => ~rs2[k].active
            /\ \E k \in DOMAIN reservations :
                   reservations[k].active /\ reservations[k].approved /\ ~rs2[k].active

\* C19: a reservation that is approved stays approved in every later state;
\* a step that retires a reservation leaves its approved flag, and so does
\* the retirement /revoke makes.
C19_ApprovedIsMonotonic ==
    [][/\ \A k \in DOMAIN reservations :
              /\ k \in DOMAIN reservations'
              /\ reservations[k].approved => reservations'[k].approved
              /\ (reservations[k].active /\ ~reservations'[k].active)
                     => reservations'[k].approved = reservations[k].approved
       /\ \A u \in Users : RevokeKeepsApproval(u)]_vars

\* C19 witness: an approved reservation that has not ended is inactive: it
\* was revoked, and is still approved.
C19_Witness ==
    \E k \in DOMAIN reservations :
        /\ reservations[k].approved /\ ~reservations[k].active
        /\ reservations[k].end > now

\* The reservations table without its inactive rows.
ActiveOnly(rs) ==
    LET Keep(r) == r.active
    IN  SelectSeq(rs, Keep)

\* Every query answers as it would if the inactive rows were not in the table.
QueriesIgnoreInactive ==
    LET A == ActiveOnly(reservations)
    IN  /\ \A t \in 0..MaxTime :
               /\ expired_reservations(reservations, t) = expired_reservations(A, t)
               /\ next_approved(reservations, t) = next_approved(A, t)
               /\ get_reservation_status(pass, reservations, t)
                      = get_reservation_status(pass, A, t)
               /\ \A e \in 0..MaxTime :
                      check_reservation_conflicts(reservations, t, e)
                          = check_reservation_conflicts(A, t, e)
               /\ \A u \in Users :
                      /\ get_user_active_reservations(reservations, u, t)
                             = get_user_active_reservations(A, u, t)
                      /\ get_user_next_unapproved_reservation(reservations, u, t)
                             = get_user_next_unapproved_reservation(A, u, t)
        /\ \A u \in Users :
               get_user_most_recent_approved_reservation(reservations, u)
                   = get_user_most_recent_approved_reservation(A, u)

\* The snapshot a pass of the tick works from names only rows that are active
\* in the table it was read from.
SnapshotIsActive ==
    PassBegins =>
        /\ \A i \in DOMAIN StepStatus.expired :
               \E k \in DOMAIN reservations :
                   reservations[k].active /\ IsRow(reservations[k], StepStatus.expired[i])
        /\ \A i \in DOMAIN StepStatus.next :
               \E k \in DOMAIN reservations :
                   /\ reservations[k].active /\ reservations[k].approved
                   /\ IsRow(reservations[k], StepStatus.next[i])

\* A reservation that is inactive is inactive after the step.
InactiveStaysInactive ==
    \A k \in DOMAIN reservations :
        ~reservations[k].active =>
            (k \in DOMAIN reservations' /\ ~reservations'[k].active)

\* No two reservations of one user, active or retired, have the same
\* start_time.
NoSharedStart ==
    \A i \in DOMAIN reservations, j \in DOMAIN reservations :
        (i # j /\ reservations[i].user = reservations[j].user)
            => reservations[i].start # reservations[j].start

\* A pass of the tick that has run, without interruption, from its snapshot to
\* the external apply of a transfer to the user of the next reservation finds
\* that reservation active in the table.
PassTargetsActive ==
    (PassBegins /\ tick'.pc \in {"ext_next", "ext_sched"}) =>
        \E k \in DOMAIN reservations' :
            reservations'[k].active /\ IsRow(reservations'[k], tick'.next[1])

\* C20 as stated: an inactive reservation stays inactive, no query returns
\* it, and the tick starts no transfer to the user of a reservation that is
\* inactive.
C20_InactiveIsExcluded ==
    [][/\ InactiveStaysInactive
       /\ QueriesIgnoreInactive
       /\ SnapshotIsActive
       /\ PassTargetsActive]_vars

\* The clauses of C20 that hold of every step, and the last one where no two
\* reservations of a user share a start_time.
InactiveExcludedUnlessSharedStart ==
    [][/\ InactiveStaysInactive
       /\ QueriesIgnoreInactive
       /\ SnapshotIsActive
       /\ NoSharedStart => PassTargetsActive]_vars

\* The interval start_time..end_time meets that of an active approved
\* reservation.
ConflictsWithApproved(start_time, end_time) ==
    \E k \in DOMAIN reservations :
        /\ reservations[k].active /\ reservations[k].approved
        /\ reservations[k].start < end_time /\ reservations[k].end > start_time

\* C21: a /request with end <= start, with a start that is not after the
\* clock, or whose interval meets an active approved reservation is refused:
\* it creates no reservation and leaves every reservation as it was (the
\* handler has no write to the pass row).
C21_RejectedRequestChangesNothing ==
    \A caller \in Users, target \in Users, s \in Times, e \in Times :
        (e <= s \/ s <= now \/ ConflictsWithApproved(s, e)) =>
            LET x == request_command(reservations, caller, target, s, e, now)
            IN  x.outcome # "created" /\ x.rs = reservations

\* C21 witness: the clock has moved, and a request with a valid range in the
\* future is refused for a conflict, one with a start at the clock for its
\* start, and one with an empty range for its range.
C21_Witness ==
    /\ now > 0
    /\ \E s \in Times, e \in Times :
           /\ s > now /\ e > s
           /\ request_command(reservations, 2, 2, s, e, now).outcome = "conflict"
    /\ request_command(reservations, 2, 2, now, now + 1, now).outcome = "invalid_start"
    /\ request_command(reservations, 2, 2, now + 1, now + 1, now).outcome = "invalid_range"

\* The number of entries of the sequence q that equal x.
Count(q, x) == Cardinality({i \in DOMAIN q : q[i] = x})

\* C22: for every user and every start after the clock and end after the
\* start, create_reservation adds exactly one row, which is active and not
\* approved, leaves the other rows, and the list of the active reservations
\* holds the new reservation once more than before.
C22_CreateAddsActiveUnapproved ==
    \A u \in Users, s \in Times, e \in Times :
        (s > now /\ e > s) =>
            LET rs2 == create_reservation(reservations, u, s, e)
                listed == [user |-> u, start |-> s, end |-> e, approved |-> FALSE]
            IN  /\ Len(rs2) = Len(reservations) + 1
                /\ SubSeq(rs2, 1, Len(reservations)) = reservations
                /\ rs2[Len(rs2)] = [user |-> u, start |-> s, end |-> e,
                                     active |-> TRUE, approved |-> FALSE]
                /\ Len(get_reservations(rs2)) = Len(get_reservations(reservations)) + 1
                /\ Count(get_reservations(rs2), listed)
                       = Count(get_reservations(reservations), listed) + 1

\* C22 witness: the last row of the table is a reservation, of a user other
\* than the owner, that starts after the clock, is active and not approved,
\* and the list of the active reservations holds it.
C22_Witness ==
    /\ reservations # <<>>
    /\ LET r == reservations[Len(reservations)]
       IN  /\ r.user # OWNER_ID
           /\ r.start > now /\ r.active /\ ~r.approved
           /\ Count(get_reservations(reservations),
                    [user |-> r.user, start |-> r.start, end |-> r.end,
                     approved |-> FALSE]) >= 1
           /\ Len(reservations) = MaxRes

\* The rows C23 says the conflict query returns.
OverlappingApproved(rs, start_time, end_time, exclude_user_id) ==
    LET Keep(r) ==
            /\ r.active /\ r.approved
            /\ exclude_user_id # NoUser => r.user # exclude_user_id
            /\ r.start < end_time /\ r.end > start_time
    IN  SelectSeq(rs, Keep)

\* C23: check_reservation_conflicts returns exactly the active approved
\* reservations, of a user other than the excluded one when one is given,
\* with r.start < end and r.end > start: intervals that only touch are not
\* returned, and neither are unapproved or inactive reservations.
C23_ConflictsAreOverlaps ==
    \A s \in Times, e \in Times :
        /\ check_reservation_conflicts(reservations, s, e)
               = OverlappingApproved(reservations, s, e, NoUser)
        /\ \A x \in Users \cup {NoUser} :
               check_reservation_conflicts_excluding(reservations, s, e, x)
                   = OverlappingApproved(reservations, s, e, x)

\* C23 witness: the table holds an approved active reservation r and a
\* reservation that is not approved or not active; the query of r's interval
\* returns r alone, the query of the interval that starts where r ends
\* returns nothing, and so does the query of r's interval without r's user.
C23_Witness ==
    \E k \in DOMAIN reservations, j \in DOMAIN reservations :
        LET r == reservations[k]
            q == reservations[j]
        IN  /\ r.active /\ r.approved
            /\ ~(q.active /\ q.approved)
            /\ q.start < r.end /\ q.end > r.start
            /\ check_reservation_conflicts(reservations, r.start, r.end) = <<r>>
            /\ r.end < MaxTime
            /\ check_reservation_conflicts(reservations, r.end, MaxTime) = <<>>
            /\ check_reservation_conflicts_excluding(
                   reservations, r.start, r.end, r.user) = <<>>

\* The expected owner of the compare-and-set of call c is the owner the pass
\* row held when the compare-and-set ran: what a read made right before it
\* returns.
ExpectedIsFresh(c) == c.cas # "none" => c.from = c.before.owner

\* C24 as stated: every caller of the local transfer (tick, /give, /approve,
\* /revoke) passes as expected owner the owner read right before the
\* compare-and-set, after its external apply.
C24_ExpectedOwnerIsFresh ==
    \A c \in CallsOfStep : ExpectedIsFresh(c)

\* The part of C24 that holds: /give reads the owner after its external apply.
GiveExpectedOwnerIsFresh ==
    \A c \in CallsOfStep : c.op = "give" => ExpectedIsFresh(c)

\* C25: the parking_pass table holds exactly one row in every state; a call
\* of init_database on an empty table inserts one row owned by the default
\* owner, and a call on the table as it is, repeated or not, leaves the row,
\* its owner included.
C25_OnePassRecord ==
    /\ pass \in [owner : Users, last_updated : Times]
    /\ init_database(<<>>, now) = <<[owner |-> DEFAULT_OWNER_ID, last_updated |-> now]>>
    /\ init_database(<<pass>>, now) = <<pass>>
    /\ init_database(init_database(<<pass>>, now), now) = <<pass>>
    /\ init_database(init_database(<<>>, 0), now) = init_database(<<>>, 0)

\* C25 witness: a user other than the default owner holds the pass, and
\* init_database leaves the owner.
C25_Witness ==
    /\ pass.owner # DEFAULT_OWNER_ID
    /\ now > pass.last_updated
    /\ init_database(<<pass>>, now)[1].owner = pass.owner

\* C26: in every state the owner of the pass is the default owner or a user
\* with a memo in the users table.
C26_OwnerIsKnown ==
    pass.owner = DEFAULT_OWNER_ID \/ get_user_memo(pass.owner)

\* C26 witness: the pass was handed to a user with a memo while the default
\* owner has none, and the last step refused a transfer to a user without a
\* memo or made one.
C26_Witness ==
    /\ pass.owner # DEFAULT_OWNER_ID
    /\ get_user_memo(pass.owner)
    /\ ~get_user_memo(DEFAULT_OWNER_ID)
    /\ \E c \in CallsOfStep : c.ret /\ c.to = pass.owner

\* C27: mark_reservation_inactive applied twice leaves the table that one
\* application leaves, and it leaves the table as it was when no active
\* reservation has the given user_id and start_time (the reservation is
\* inactive already, or there is none).
C27_MarkInactiveIdempotent ==
    \A u \in Users, s \in Times :
        LET once == mark_reservation_inactive(reservations, u, s)
        IN  /\ mark_reservation_inactive(once, u, s) = once
            /\ (\A k \in DOMAIN reservations :
                    (reservations[k].user = u /\ reservations[k].start = s)
                        => ~reservations[k].active)
                   => once = reservations

\* C27 witness: the table holds a reservation that was marked inactive and
\* an active one; marking the first again changes nothing, marking the
\* second changes the table once.
C27_Witness ==
    \E k \in DOMAIN reservations, j \in DOMAIN reservations :
        LET r == reservations[k]
            q == reservations[j]
        IN  /\ ~r.active /\ q.active
            /\ mark_reservation_inactive(reservations, r.user, r.start) = reservations
            /\ mark_reservation_inactive(reservations, q.user, q.start) # reservations

\* C28: approve_reservation_by_details applied twice leaves the table that
\* one application leaves; it sets approved on the active rows with the given
\* user_id and start_time and changes nothing else: no row that is inactive
\* or has another key, and no active flag.
C28_ApproveIdempotentActiveOnly ==
    \A u \in Users, s \in Times :
        LET once == approve_reservation_by_details(reservations, u, s)
        IN  /\ approve_reservation_by_details(once, u, s) = once
            /\ DOMAIN once = DOMAIN reservations
            /\ \A k \in DOMAIN reservations :
                   IF /\ reservations[k].user = u /\ reservations[k].start = s
                      /\ reservations[k].active
                   THEN once[k] = [reservations[k] EXCEPT !.approved = TRUE]
                   ELSE once[k] = reservations[k]

\* C28 witness: the table holds an inactive reservation that is not approved
\* and an active one that is not approved; approving the first changes
\* nothing, approving the second changes the table.
C28_Witness ==
    \E k \in DOMAIN reservations, j \in DOMAIN reservations :
        LET r == reservations[k]
            q == reservations[j]
        IN  /\ ~r.active /\ ~r.approved
            /\ q.active /\ ~q.approved
            /\ approve_reservation_by_details(reservations, r.user, r.start) = reservations
            /\ approve_reservation_by_details(reservations, q.user, q.start) # reservations

\* The row r is one that a cleanup with the given cutoff deletes.
IsOld(r, cutoff_date) == ~r.active /\ r.end < cutoff_date

\* C29: cleanup_old_reservations deletes exactly the rows that are inactive
\* and end before the cutoff, keeps the others in their order, and returns
\* the number of rows it deleted; the sweep applies it with the cutoff
\* RetentionSeconds before the clock and leaves the pass row.
C29_CleanupDeletesOldInactive ==
    [][/\ \A cutoff \in 0..(MaxTime + 1) :
              LET x == cleanup_old_reservations(reservations, cutoff)
                  Kept(r) == ~IsOld(r, cutoff)
              IN  /\ x.rs = SelectSeq(reservations, Kept)
                  /\ x.deleted_count = Len(reservations) - Len(x.rs)
                  /\ x.deleted_count =
                         Cardinality({k \in DOMAIN reservations :
                                          IsOld(reservations[k], cutoff)})
                  /\ \A k \in DOMAIN reservations :
                         reservations[k].active =>
                             \E j \in DOMAIN x.rs : x.rs[j] = reservations[k]
       /\ LET Kept(r) == ~IsOld(r, now - RetentionSeconds)
          IN  /\ reservations' = SelectSeq(reservations, Kept)
              /\ pass' = pass]_vars

\* C29 witness: the table holds an inactive reservation that ended before the
\* cutoff of the sweep and an active one that did too; the sweep deletes the
\* first and keeps the second.
C29_Witness ==
    /\ Len(reservations) = 2
    /\ LET cutoff == now - RetentionSeconds
           x == cleanup_old_reservations(reservations, cutoff)
       IN  /\ IsOld(reservations[1], cutoff)
           /\ reservations[2].active /\ reservations[2].end < cutoff
           /\ x.deleted_count = 1
           /\ x.rs = <<reservations[2]>>
           /\ ENABLED (CleanupSweep /\ reservations' = x.rs)

\* The step starts a pass of the tick whose snapshot holds an expired
\* reservation of the owner.
ExpiryPass ==
    /\ PassBegins
    /\ \E i \in DOMAIN StepStatus.expired :
           StepStatus.expired[i].user = StepStatus.owner

\* The target of the first transfer the step attempts: that of its first
\* completed call or, when it completed none, of the external apply it
\* awaits.
FirstTarget == IF calls' # <<>> THEN calls'[1].to ELSE tick'.to

\* C30 as stated: in a pass that finds an expired reservation of the owner,
\* the target of the transfer is the user of next_approved when that
\* reservation is ready under the buffer rule (start_time <= now - 1s), and
\* the default owner otherwise.
C30_ExpiryUsesBufferRule ==
    [][ExpiryPass =>
          FirstTarget =
              IF /\ StepStatus.next # <<>>
                 /\ is_reservation_ready_to_start(StepStatus.next[1], StepStatus.now)
              THEN StepStatus.next[1].user
              ELSE DEFAULT_OWNER_ID]_vars

\* C30 amended: the target of the first transfer of such a pass is the user
\* of next_approved when that reservation has started (start_time <= now,
\* without the buffer), and the default owner otherwise.
C30_ExpiryUsesStartTime ==
    [][ExpiryPass =>
          FirstTarget =
              IF /\ StepStatus.next # <<>>
                 /\ StepStatus.next[1].start <= StepStatus.now
              THEN StepStatus.next[1].user
              ELSE DEFAULT_OWNER_ID]_vars

\* C30 witness: a pass found an expired reservation of the owner and a next
\* approved reservation that starts at the very second of the pass, and
\* awaits the external apply of the transfer to its user, who is not the
\* default owner.
C30_Witness ==
    /\ tick.pc = "ext_next"
    /\ tick.next[1].start = tick.now
    /\ tick.to = tick.next[1].user
    /\ tick.to # DEFAULT_OWNER_ID

\* The step is the first segment of a /revoke for user u.
RevokeOf(u) ==
    LET most_recent == get_user_most_recent_approved_reservation(reservations, u)
    IN  /\ revoke.pc = "idle"
        /\ most_recent # <<>>
        /\ UNCHANGED <<now, tick, last_check_time, give, approve>>
        /\ reservations' # reservations
        /\ reservations' =
               mark_reservation_inactive(reservations, u, most_recent[1].start)

\* The rows the step changes.
ChangedRows == {k \in DOMAIN reservations : reservations'[k] # reservations[k]}

\* The rows a /revoke for u changes are u's active approved reservations of
\* the latest start_time, and it clears their active flag alone.
RevokeRetiresLatest(u) ==
    \A k \in ChangedRows :
        /\ reservations[k].user = u
        /\ reservations[k].active /\ reservations[k].approved
        /\ reservations'[k] = [reservations[k] EXCEPT !.active = FALSE]
        /\ \A j \in DOMAIN reservations :
               (/\ reservations[j].user = u
                /\ reservations[j].active /\ reservations[j].approved)
                   => reservations[j].start <= reservations[k].start

\* A /revoke for u hands the pass back when the revoked reservation has
\* started and not ended before the clock and u is the owner: the step makes
\* the hand-back or awaits its external apply; otherwise it leaves the pass
\* row.
RevokeHandsBack(u) ==
    LET r == get_user_most_recent_approved_reservation(reservations, u)[1]
    IN  IF r.start <= now /\ now <= r.end /\ pass.owner = u
        THEN \/ revoke'.pc = "ext" /\ revoke'.user = u /\ pass' = pass
             \/ /\ revoke'.pc = "idle"
                /\ pass'.owner = DEFAULT_OWNER_ID
                /\ \E c \in {calls'[i] : i \in DOMAIN calls'} :
                       c.op = "revoke" /\ c.to = DEFAULT_OWNER_ID /\ c.ret
        ELSE pass' = pass /\ revoke' = revoke /\ calls' = <<>>

\* The hand-back of a /revoke, once its external apply has returned or
\* raised, sets the owner to the default owner unless another handler took
\* the pass from the revoked user in between.
RevokeCallsHandBack ==
    \A c \in CallsOfStep :
        c.op = "revoke" =>
            /\ c.to = DEFAULT_OWNER_ID
            /\ c.before.owner = c.from => (c.ret /\ c.after.owner = DEFAULT_OWNER_ID)

\* C31 as stated: a /revoke for user U deactivates U's active approved
\* reservation with the latest start_time and no other reservation; when that
\* reservation covers the clock and U is the owner the pass goes back to the
\* default owner, and otherwise the pass row is unchanged.
C31_RevokeRetiresOne ==
    [][/\ \A u \in Users :
              RevokeOf(u) =>
                  /\ Cardinality(ChangedRows) = 1
                  /\ RevokeRetiresLatest(u)
                  /\ RevokeHandsBack(u)
       /\ RevokeCallsHandBack']_vars

\* C31 where no two reservations of a user share a start_time.
RevokeRetiresOneUnlessSharedStart ==
    [][/\ \A u \in Users :
              RevokeOf(u) =>
                  /\ NoSharedStart => Cardinality(ChangedRows) = 1
                  /\ RevokeRetiresLatest(u)
                  /\ RevokeHandsBack(u)
       /\ RevokeCallsHandBack']_vars

\* The reservation C32 names: among the active approved reservations that
\* end after t, one of earliest start_time (the first in the table among
\* equals), or none.
EarliestApprovedOpen(t) ==
    LET S == {k \in DOMAIN reservations :
                 /\ reservations[k].active /\ reservations[k].approved
                 /\ reservations[k].end > t}
    IN  IF S = {} THEN <<>>
        ELSE LET k == CHOOSE k \in S :
                          \A j \in S :
                              \/ reservations[k].start < reservations[j].start
                              \/ reservations[k].start = reservations[j].start /\ k <= j
             IN  <<reservations[k]>>

\* The next-approved query of the tick returns the reservation C32 names.
TickNextIsEarliestOpen ==
    \A t \in Times : next_approved(reservations, t) = EarliestApprovedOpen(t)

\* C32 as stated: the next-approved reservation of the tick is the active
\* approved reservation of earliest start_time among those that end after
\* the clock, started or not, and the store's other next-approved query,
\* get_next_approved_reservation, returns the same reservation.
C32_NextApprovedQueriesAgree ==
    /\ TickNextIsEarliestOpen
    /\ \A t \in Times :
           get_next_approved_reservation(reservations, t) = EarliestApprovedOpen(t)

\* C33: the expired rows computed at time t are exactly the active
\* reservations with end_time <= t, approved or not, and a reservation that
\* ends at t is among them and is not among the reservations
\* get_user_active_reservations returns for its user at t.
C33_ExpiredIsEndedActive ==
    \A t \in Times :
        LET Ended(r) == r.active /\ r.end <= t
            expired == expired_reservations(reservations, t)
        IN  /\ expired = SelectSeq(reservations, Ended)
            /\ \A k \in DOMAIN reservations :
                   LET r == reservations[k]
                   IN  (r.active /\ r.end = t) =>
                           /\ \E i \in DOMAIN expired : expired[i] = r
                           /\ \A i \in DOMAIN get_user_active_reservations(
                                                  reservations, r.user, t) :
                                  get_user_active_reservations(
                                      reservations, r.user, t)[i].end > t

\* C33 witness: the tick pass that has just finished found expired a
\* reservation that ended in the second of the pass and was never approved.
C33_Witness ==
    /\ done # <<>>
    /\ \E i \in DOMAIN done[1].expired, k \in DOMAIN reservations :
           /\ done[1].expired[i].end = done[1].now
           /\ IsRow(reservations[k], done[1].expired[i])
           /\ ~reservations[k].approved
           /\ ~reservations[k].active

\* A pass that awaits an external apply keeps the status it read.
SnapshotKept ==
    tick.pc # "idle" =>
        /\ tick'.pc # "idle" =>
               /\ tick'.now = tick.now /\ tick'.owner = tick.owner
               /\ tick'.expired = tick.expired /\ tick'.next = tick.next
        /\ done' # <<>> =>
               /\ done'[1].now = tick.now /\ done'[1].owner = tick.owner
               /\ done'[1].expired = tick.expired /\ done'[1].next = tick.next

\* Every transfer of the tick that makes a user other than the default owner
\* the owner ends its pass, and the status of that pass holds a next approved
\* reservation of that user that has started and has not ended.
TickInstallsStarted ==
    \A c \in TickCalls :
        (c.ret /\ c.to # DEFAULT_OWNER_ID) =>
            /\ done # <<>>
            /\ done[1].next # <<>>
            /\ done[1].next[1].user = c.to
            /\ done[1].next[1].start <= done[1].now
            /\ done[1].next[1].end > done[1].now

\* C34: the tick makes a user U other than the default owner the owner only
\* if the status the pass read holds, as next_approved, a reservation of U
\* with start_time <= now < end_time that was active and approved in the
\* table the status was read from; the pass works from that status until it
\* ends.
C34_TickInstallsOnlyStartedApproved ==
    [][/\ SnapshotIsActive
       /\ SnapshotKept
       /\ TickInstallsStarted]_vars

\* C34 witness: a pass that found an expired reservation of the owner and a
\* next approved reservation of another user that starts at the second of
\* the pass has made that user the owner.
C34_Witness ==
    /\ done # <<>>
    /\ \E i \in DOMAIN done[1].expired : done[1].expired[i].user = done[1].owner
    /\ done[1].next # <<>>
    /\ done[1].next[1].start = done[1].now
    /\ done[1].next[1].user \notin {DEFAULT_OWNER_ID, done[1].owner}
    /\ \E k \in DOMAIN calls :
           /\ calls[k].op = "tick" /\ calls[k].ret
           /\ calls[k].to = done[1].next[1].user
    /\ pass.owner = done[1].next[1].user

\* The table holds an active approved reservation of user_id that covers t.
CoversApproved(user_id, t) ==
    \E k \in DOMAIN reservations :
        /\ reservations[k].user = user_id
        /\ reservations[k].active /\ reservations[k].approved
        /\ reservations[k].start <= t /\ t < reservations[k].end

\* The completed tick transfers of the step that took the pass from its
\* owner.
TickTookPass ==
    {k \in DOMAIN calls' :
        /\ calls'[k].op = "tick" /\ calls'[k].ret
        /\ calls'[k].after.owner # calls'[k].before.owner}

\* C35 as stated: no transfer of the tick takes the pass from a user who
\* has, in the table the step of the tick starts from, an active approved
\* reservation that covers the second of the pass.
C35_CoveredOwnerKeepsPass ==
    [][\A k \in TickTookPass :
           ~CoversApproved(calls'[k].before.owner, StepStatus.now)]_vars

\* The only reservations that are expired at the second of the step were
\* never approved, and no approved reservation is open, so that the scheduled
\* starts have nothing to install.
OnlyUnapprovedExpire ==
    /\ expired_reservations(reservations, now) # <<>>
    /\ \A k \in DOMAIN reservations :
           (reservations[k].active /\ reservations[k].end <= now)
               => ~reservations[k].approved
    /\ next_approved(reservations, now) = <<>>

\* C36 as stated: a pass of the tick whose expired reservations were never
\* approved only retires them: it attempts no transfer and leaves the pass
\* record as it was, even when their user is the owner.
C36_UnapprovedExpiryKeepsPass ==
    [][(PassBegins /\ OnlyUnapprovedExpire) =>
          /\ pass' = pass
          /\ calls' = <<>>
          /\ tick'.pc = "idle"]_vars

\* C37 as stated: an invocation of the tick that line 85 ends is in the very
\* second of the last processed pass; an invocation in any later second, a
\* whole number of minutes later included, goes on to a pass.
C37_SkipsOnlySameSecond ==
    (tick.pc = "idle" /\ SameSecond) => last_check_time = now

\* C38: while ticks keep being processed, every active reservation whose
\* end_time has been reached is eventually marked inactive, the ones a pass
\* left active when it returned after a successful transfer included.
C38_ExpiredEventuallyRetired ==
    \A k \in 1..MaxRes :
        (/\ k \in DOMAIN reservations
         /\ reservations[k].active
         /\ reservations[k].end <= now)
            ~> (k \in DOMAIN reservations /\ ~reservations[k].active)

\* C38 witness: a pass found two expired reservations, returned after the
\* successful transfer the first one caused, and left the second one active.
C38_Witness ==
    /\ done # <<>>
    /\ Len(done[1].expired) = 2
    /\ \E c \in TickCalls : c.ret
    /\ Len(reservations) = 2
    /\ ~reservations[1].active
    /\ reservations[2].active
    /\ reservations[2].end <= done[1].now

\* The transfers of the tick, among those the last step completed, that
\* changed the pass record.
TickCommits == {k \in DOMAIN calls : calls[k].op = "tick" /\ calls[k].ret}

\* A transfer of the tick that succeeded is the last thing its pass did: no
\* transfer follows it and the pass is over.
CommitEndsPass ==
    TickCommits # {} =>
        /\ TickCommits = {Len(calls)}
        /\ tick.pc = "idle"
        /\ done # <<>>

RECURSIVE MarkPrefix(_, _, _)
\* The table after the first i reservations of an expired list were retired.
MarkPrefix(rs, expired, i) ==
    IF i = 0 THEN rs
    ELSE mark_reservation_inactive(MarkPrefix(rs, expired, i - 1),
                                   expired[i].user, expired[i].start)

\* The step is a pass of the tick that ran from its snapshot to a successful
\* transfer, and retired the expired reservations up to the first one of
\* the owner and no other.
CommitStopsExpiry ==
    (/\ PassBegins
     /\ TickCommits' # {}
     /\ \E i \in DOMAIN StepStatus.expired :
            StepStatus.expired[i].user = StepStatus.owner) =>
        LET S == StepStatus
            first == CHOOSE i \in DOMAIN S.expired :
                         /\ S.expired[i].user = S.owner
                         /\ \A j \in 1..(i - 1) : S.expired[j].user # S.owner
        IN  reservations' = MarkPrefix(reservations, S.expired, first)

\* A successful transfer that follows an external apply of the tick is
\* followed by no retirement.
CommitAfterApplyRetiresNone ==
    (/\ tick.pc # "idle"
     /\ calls' # <<>> /\ calls'[1].op = "tick" /\ calls'[1].ret) =>
        reservations' = reservations

\* C39: a tick commits at most one change of the local owner: a transfer
\* that succeeded ends the pass, so no expired reservation is handled after
\* it, the scheduled starts do not run after a successful expiration
\* transfer, and they make at most one transfer.
C39_OneCommitPerTick ==
    [][/\ CommitEndsPass'
       /\ CommitStopsExpiry
       /\ CommitAfterApplyRetiresNone]_vars

\* C39 witness: a pass handed the pass back to the default owner for an
\* expired reservation and ended, although the next approved reservation,
\* of another user, was ready for a scheduled start.
C39_Witness ==
    /\ done # <<>>
    /\ TickCommits = {Len(calls)}
    /\ calls[Len(calls)].to = DEFAULT_OWNER_ID
    /\ \E i \in DOMAIN done[1].expired : done[1].expired[i].user = done[1].owner
    /\ done[1].next # <<>>
    /\ is_reservation_ready_to_start(done[1].next[1], done[1].now)
    /\ done[1].next[1].user # DEFAULT_OWNER_ID
    /\ pass.owner = DEFAULT_OWNER_ID

\* The rows the step leaves approved that were not approved before it: the
\* rows it approved, or created approved.
NewlyApproved ==
    {k \in DOMAIN reservations' :
        /\ reservations'[k].approved
        /\ ~(k \in DOMAIN reservations /\ reservations[k].approved)}

\* C40: a step sets the approved flag only of reservations whose start_time
\* is later than the clock its handler read (the owner's /request, which
\* approves what it creates, and /approve), and a reservation that is
\* unapproved when its start_time has come is unapproved after every step.
C40_ApprovedOnlyBeforeStart ==
    [][/\ \A k \in NewlyApproved : reservations'[k].start > now
       /\ \A k \in DOMAIN reservations :
              (~reservations[k].approved /\ reservations[k].start <= now) =>
                  (k \in DOMAIN reservations' /\ ~reservations'[k].approved)]_vars

\* C40 witness: /approve has approved a reservation of its user that starts
\* at the second the clock has reached since, and another reservation, which
\* has started, is still pending.
C40_Witness ==
    /\ approve.pc = "ext"
    /\ \E k \in DOMAIN reservations, j \in DOMAIN reservations :
           /\ reservations[k].user = approve.user
           /\ reservations[k].approved /\ reservations[k].start = now
           /\ ~reservations[j].approved /\ reservations[j].active
           /\ reservations[j].start <= now
====
